---- MODULE Spec2Model ----
(***************************************************************************)
(* A model of psite_trimmed.py (ORF-RATER): the annotation index, the     *)
(* read filter, the offset mapper, the per-(chromosome, strand) tally      *)
(* run by a pool of worker processes, the element-wise reduction, the      *)
(* cross-correlation offset resolver and the two output files.             *)
(***************************************************************************)
EXTENDS Integers, Sequences, FiniteSets, TLC

VARIABLES
    opts,            \* parsed command line: minrdlen, maxrdlen, max5mis, numproc, tallyfile
    cdsbed,          \* the lines of the annotation (BED) input
    bedpos,          \* number of annotation lines consumed so far
    bamfiles,        \* the alignment files named on the command line (their content)
    inbams,          \* the handles of line 30: "open" / "closed", one per alignment file
    gcoorddict,      \* (chrom, strand) -> set of start-codon coordinates
    pc,              \* position of the main process in the module body
    err,             \* the kind of the uncaught exception that ended the run, or "none"
    keys,            \* gcoorddict.keys(), the task list handed to workers.map
    taskq,           \* index of the next task the pool hands out
    wk,              \* the local state of each pool worker
    results,         \* per task: the matrix map_start_sites returned, when it has
    summed,          \* sum(workers.map(...)) of line 84, before .astype
    offset_tallies,  \* the aggregate matrix of line 84, as float64
    master_rdlen_idx,
    master_offset,
    offsets,         \* the resolved offset of each row (line 97)
    tallyfile_out,   \* the optional tally file on disk
    offsetfile_out,  \* the offset table on disk
    call             \* one call of offset_to_gcoord: its arguments and its return value

vars == <<opts, cdsbed, bedpos, bamfiles, inbams, gcoorddict, pc, err, keys, taskq, wk,
          results, summed, offset_tallies, master_rdlen_idx, master_offset, offsets,
          tallyfile_out, offsetfile_out, call>>

(***************************************************************************)
(* Bounds of the model and constants of the program.                       *)
(***************************************************************************)
MaxRdLen == 3        \* the largest --maxrdlen the model runs with
MaxCoord == 3        \* genomic coordinates are 0..MaxCoord
MaxNmis == 2         \* 5' mismatch counts are 0..MaxNmis
MaxProc == 2         \* the largest --numproc
MaxBedLines == 2     \* the longest annotation input of a whole run
MaxIndexLines == 3   \* the longest annotation input handed to the index alone
MaxPositions == 3    \* the longest position list handed to offset_to_gcoord alone
MaxVal == 2          \* the largest cell of a matrix handed to the resolver directly
CellBits == 32       \* np.uint32
Max5MisDefault == 1  \* default of --max5mis

None == -1           \* Python's None as returned by offset_to_gcoord (offsets are >= 0)

Chroms == {"chrI", "chrII"}
Strands == {"+", "-"}
Coords == 0..MaxCoord

Min(S) == CHOOSE x \in S : \A y \in S : x <= y

SeqsUpTo(S, n) == UNION {[1..k -> S] : k \in 0..n}

RECURSIVE Pow2(_)
Pow2(n) == IF n = 0 THEN 1 ELSE 2 * Pow2(n - 1)

(***************************************************************************)
(* np.uint32 cells.  The model checker's integers are 32-bit signed, so a  *)
(* cell is kept as its two 16-bit halves <<hi, lo>>, value hi * 2^16 + lo, *)
(* and the arithmetic is the 32-bit arithmetic with its carry.             *)
(***************************************************************************)
Half == Pow2(CellBits \div 2)

U32(n) == <<(n \div Half) % Half, n % Half>>

\* a + b modulo 2^32
U32Add(a, b) ==
    <<(a[1] + b[1] + ((a[2] + b[2]) \div Half)) % Half, (a[2] + b[2]) % Half>>

\* .astype(np.float64): the value of the cell (exact: a float64 holds every uint32)
AsFloat(a) == a[1] * Half + a[2]

(***************************************************************************)
(* Matrices: m[i][j], 0-based as in numpy.                                 *)
(***************************************************************************)
NRows(o) == o.maxrdlen + 1 - o.minrdlen
NCols(o) == o.maxrdlen

\* np.zeros((opts.maxrdlen+1-opts.minrdlen, opts.maxrdlen), np.uint32)
Zeros(o) == [i \in 0..(NRows(o) - 1) |-> [j \in 0..(NCols(o) - 1) |-> U32(0)]]

\* numpy's indexing of one axis of length n: -n..-1 count from the end,
\* anything else outside 0..n-1 raises IndexError
IndexOk(i, n) == -n <= i /\ i < n
NpIndex(i, n) == IF i < 0 THEN i + n ELSE i

\* offset_tallies[i, j] += 1 on uint32 cells
Increment(m, i, j) ==
    LET r == NpIndex(i, Cardinality(DOMAIN m))
        c == NpIndex(j, Cardinality(DOMAIN m[r]))
    IN  [m EXCEPT ![r][c] = U32Add(@, U32(1))]

\* a + b on two uint32 arrays of the same shape
MatAdd(a, b) == [i \in DOMAIN a |-> [j \in DOMAIN a[i] |-> U32Add(a[i][j], b[i][j])]]

\* m.astype(np.float64)
MatAsFloat(m) == [i \in DOMAIN m |-> [j \in DOMAIN m[i] |-> AsFloat(m[i][j])]]

(***************************************************************************)
(* OffsetMapper.                                                           *)
(***************************************************************************)
offset_to_gcoord_noflip(read, gcoord) ==
    LET n == Len(read.positions)
        hits == {idx \in 0..(n - 1) : read.positions[idx + 1] = gcoord}
    IN  IF hits = {} THEN None ELSE Min(hits)

\* next((... for (idx, pos) in enumerate(read.positions) if pos == gcoord), None)
offset_to_gcoord(read, gcoord) ==
    LET n == Len(read.positions)
        hits == {idx \in 0..(n - 1) : read.positions[idx + 1] = gcoord}
    IN  IF hits = {} THEN None
        ELSE IF read.is_reverse THEN n - Min(hits) - 1
        ELSE Min(hits)

(***************************************************************************)
(* The external collaborators, as the specification describes them.        *)
(***************************************************************************)
\* read_length_nmis(read): (length after trimming the 5' mismatches, number of
\* those mismatches).  The read has one covered position per aligned base and
\* read.extra bases that cover no position (insertions, soft clips).
read_length_nmis(read) == <<Len(read.positions) + read.extra - read.nmis, read.nmis>>

\* bamfile.fetch(reference, start, end): the reads of the file on that reference
\* whose alignment overlaps [start, end), in file order
Overlaps(read, start, end) ==
    /\ read.positions # <<>>
    /\ read.positions[1] < end
    /\ read.positions[Len(read.positions)] >= start
fetch(bamfile, reference, start, end) ==
    LET Hit(read) == read.chrom = reference /\ Overlaps(read, start, end)
    IN  SelectSeq(bamfile.reads, Hit)
\* fetch raises ValueError for a reference the file's header does not name
fetch_raises(bamfile, reference) == reference \notin bamfile.refs

(***************************************************************************)
(* ReadFilter.                                                             *)
(***************************************************************************)
RECURSIVE chain_fetch(_, _, _, _)
\* itertools.chain.from_iterable over the files from b on: the reads yielded, and
\* whether the iteration ends in the exception of a fetch (the chain is lazy: the
\* reads of the files before the failing one are yielded first)
chain_fetch(files, b, chrom, gcoord) ==
    IF b > Len(files) THEN [items |-> <<>>, raises |-> FALSE]
    ELSE IF fetch_raises(files[b], chrom) THEN [items |-> <<>>, raises |-> TRUE]
    ELSE LET rest == chain_fetch(files, b + 1, chrom, gcoord)
         IN  [items |-> fetch(files[b], chrom, gcoord, gcoord + 1) \o rest.items,
              raises |-> rest.raises]

get_reads(files, chrom, strand, gcoord) ==
    LET all == chain_fetch(files, 1, chrom, gcoord)
        Fwd(rd) == ~rd.is_reverse
        Rev(rd) == rd.is_reverse
    IN  IF strand = "+"
        THEN [items |-> SelectSeq(all.items, Fwd), raises |-> all.raises]
        ELSE [items |-> SelectSeq(all.items, Rev), raises |-> all.raises]

(***************************************************************************)
(* TallyAccumulator: the body of the loop over the reads (lines 72-76).    *)
(***************************************************************************)
LengthOk_nomis(o, read) ==
    LET rdlen == read_length_nmis(read)[1]
    IN  o.minrdlen <= rdlen /\ rdlen <= o.maxrdlen

\* the filter of line 73
LengthOk(o, read) ==
    LET rdlen == read_length_nmis(read)[1]
        nmis == read_length_nmis(read)[2]
    IN  o.minrdlen <= rdlen /\ rdlen <= o.maxrdlen /\ nmis <= o.max5mis

OffsetOk_found(read, gcoord) == offset_to_gcoord(read, gcoord) # None

\* the filter of line 75
OffsetOk(read, gcoord) ==
    LET nmis == read_length_nmis(read)[2]
        curr_offset == offset_to_gcoord(read, gcoord)
    IN  curr_offset # None /\ curr_offset >= nmis

\* the cell line 76 addresses, as the code computes the two indices
CellOf(o, read, gcoord) ==
    <<read_length_nmis(read)[1] - o.minrdlen,
      offset_to_gcoord(read, gcoord) - read_length_nmis(read)[2]>>

Tallies(o, read, gcoord) == LengthOk(o, read) /\ OffsetOk(read, gcoord)

\* line 76 raises IndexError
TallyRaises(o, m, read, gcoord) ==
    /\ Tallies(o, read, gcoord)
    /\ \/ ~IndexOk(CellOf(o, read, gcoord)[1], NRows(o))
       \/ ~IndexOk(CellOf(o, read, gcoord)[2], NCols(o))

TallyOne(o, m, read, gcoord) ==
    IF Tallies(o, read, gcoord)
    THEN Increment(m, CellOf(o, read, gcoord)[1], CellOf(o, read, gcoord)[2])
    ELSE m

(***************************************************************************)
(* OffsetResolver (lines 95-97).                                           *)
(***************************************************************************)
RECURSIVE SumTo(_, _)
\* f[0] + ... + f[n-1]
SumTo(f, n) == IF n = 0 THEN 0 ELSE SumTo(f, n - 1) + f[n - 1]

\* np.argmax of f[0..n-1]: the first index of the maximum
ArgMax(f, n) == CHOOSE i \in 0..(n - 1) :
                    /\ \A k \in 0..(n - 1) : f[k] <= f[i]
                    /\ \A k \in 0..(i - 1) : f[k] < f[i]

Correlate_swapped(a, v, n) ==
    [j \in 0..(2 * n - 2) |->
        SumTo([k \in 0..(n - 1) |->
                 IF 0 <= k + j - (n - 1) /\ k + j - (n - 1) <= n - 1
                 THEN v[k + j - (n - 1)] * a[k] ELSE 0], n)]

\* np.correlate(a, v, 'full') for two vectors of length n: 2n-1 lags,
\* c[j] = sum over k of a[k + j - (n-1)] * v[k]
Correlate(a, v, n) ==
    [j \in 0..(2 * n - 2) |->
        SumTo([k \in 0..(n - 1) |->
                 IF 0 <= k + j - (n - 1) /\ k + j - (n - 1) <= n - 1
                 THEN a[k + j - (n - 1)] * v[k] ELSE 0], n)]

\* offset_tallies.sum(1)
RowSums(m, o) == [i \in 0..(NRows(o) - 1) |-> SumTo(m[i], NCols(o))]

MasterRow(m, o) == ArgMax(RowSums(m, o), NRows(o))
MasterOffset(m, o) == ArgMax(m[MasterRow(m, o)], NCols(o))
BestLag(row, master, o) == ArgMax(Correlate(row, master, NCols(o)), 2 * NCols(o) - 1)
Offsets_lagonly(m, o) ==
    [i \in 0..(NRows(o) - 1) |->
        ArgMax(m[ArgMax([r \in 0..(NRows(o) - 1) |-> SumTo(m[r], NCols(o))], NRows(o))],
               NCols(o))
        + ArgMax(Correlate(m[i],
                           m[ArgMax([r \in 0..(NRows(o) - 1) |-> SumTo(m[r], NCols(o))],
                                    NRows(o))],
                           NCols(o)), 2 * NCols(o) - 1)
        - o.maxrdlen]

Offsets(m, o) ==
    LET master == m[MasterRow(m, o)]
        moff == MasterOffset(m, o)
    IN  [i \in 0..(NRows(o) - 1) |-> moff + BestLag(m[i], master, o) + 1 - o.maxrdlen]

\* np.argmax raises ValueError on an empty array
ResolveRaises(o) == NRows(o) = 0 \/ NCols(o) = 0

(***************************************************************************)
(* AnnotationIndex (lines 32-43).                                          *)
(***************************************************************************)
Keys == Chroms \X Strands

\* ls[7] exists and int(ls[6]), int(ls[7]) succeed
WellFormed(line) == line.ncols >= 8 /\ line.numeric

NonEmpty(line) == line.thickstart # line.thickend

StartCodon_thickend(line) == IF line.strand = "+" THEN line.thickstart ELSE line.thickend

\* the coordinate lines 40-43 add
StartCodon(line) == IF line.strand = "+" THEN line.thickstart ELSE line.thickend - 1

AddLine(d, line) ==
    IF NonEmpty(line)
    THEN [d EXCEPT ![<<line.chrom, line.strand>>] = @ \cup {StartCodon(line)}]
    ELSE d

\* the keys a defaultdict holds: those something was added under
KeySet(d) == {k \in Keys : d[k] # {}}

Perms(S) == {s \in [1..Cardinality(S) -> S] : \A i, j \in DOMAIN s : s[i] = s[j] => i = j}

(***************************************************************************)
(* The state the pool starts from, and a worker that runs no task.         *)
(***************************************************************************)
IdleWorker ==
    [at |-> "idle", task |-> 0, tallies |-> <<>>, todo |-> {}, gcoord |-> None,
     reads |-> <<>>, raises |-> FALSE, ri |-> 0]

NoFile == [exists |-> FALSE, lines |-> <<>>]
NoCall == [read |-> [is_reverse |-> FALSE, positions |-> <<>>], gcoord |-> 0,
           ret |-> None, done |-> FALSE]

(***************************************************************************)
(* The main process.                                                       *)
(***************************************************************************)
\* line 30
OpenBams ==
    /\ pc = "open"
    /\ inbams' = [b \in 1..Len(bamfiles) |-> "open"]
    /\ pc' = "parse"
    /\ UNCHANGED <<opts, cdsbed, bedpos, bamfiles, gcoorddict, err, keys, taskq, wk,
                   results, offset_tallies, master_rdlen_idx, master_offset, offsets,
                   tallyfile_out, offsetfile_out, summed, call>>

\* one iteration of the loop of lines 33-43
ParseLine ==
    /\ pc = "parse"
    /\ bedpos < Len(cdsbed)
    /\ WellFormed(cdsbed[bedpos + 1])
    /\ gcoorddict' = AddLine(gcoorddict, cdsbed[bedpos + 1])
    /\ bedpos' = bedpos + 1
    /\ UNCHANGED <<opts, cdsbed, bamfiles, inbams, pc, err, keys, taskq, wk,
                   results, offset_tallies, master_rdlen_idx, master_offset, offsets,
                   tallyfile_out, offsetfile_out, summed, call>>

\* IndexError or ValueError on a malformed line: the traceback ends the run
ParseError ==
    /\ pc = "parse"
    /\ bedpos < Len(cdsbed)
    /\ ~WellFormed(cdsbed[bedpos + 1])
    /\ pc' = "crashed"
    /\ err' = "parse"
    /\ UNCHANGED <<opts, cdsbed, bedpos, bamfiles, inbams, gcoorddict, keys, taskq, wk,
                   results, offset_tallies, master_rdlen_idx, master_offset, offsets,
                   tallyfile_out, offsetfile_out, summed, call>>

\* lines 83-84: the pool is forked and workers.map queues one task per key
StartPool ==
    /\ pc = "parse"
    /\ bedpos = Len(cdsbed)
    /\ keys' \in Perms(KeySet(gcoorddict))
    /\ taskq' = 1
    /\ wk' = [w \in 1..opts.numproc |-> IdleWorker]
    /\ results' = [t \in 1..Cardinality(KeySet(gcoorddict)) |->
                      [done |-> FALSE, m |-> Zeros(opts)]]
    /\ pc' = "map"
    /\ UNCHANGED <<opts, cdsbed, bedpos, bamfiles, inbams, gcoorddict, err,
                   offset_tallies, master_rdlen_idx, master_offset, offsets,
                   tallyfile_out, offsetfile_out, summed, call>>

(***************************************************************************)
(* The pool workers: map_start_sites (lines 66-81), one (gcoord, read)     *)
(* pair per step.                                                          *)
(***************************************************************************)
\* a worker takes the next queued task and enters map_start_sites (line 68)
Dispatch(w) ==
    /\ pc = "map"
    /\ wk[w].at = "idle"
    /\ taskq <= Len(keys)
    /\ wk' = [wk EXCEPT ![w] =
                [at |-> "gcoords", task |-> taskq, tallies |-> Zeros(opts),
                 todo |-> gcoorddict[keys[taskq]], gcoord |-> None,
                 reads |-> <<>>, raises |-> FALSE, ri |-> 0]]
    /\ taskq' = taskq + 1
    /\ UNCHANGED <<opts, cdsbed, bedpos, bamfiles, inbams, gcoorddict, pc, err, keys,
                   results, offset_tallies, master_rdlen_idx, master_offset, offsets,
                   tallyfile_out, offsetfile_out, summed, call>>

\* the inner loop has run to its end without an exception
ReadsDone(w) ==
    \/ wk[w].at = "gcoords"
    \/ wk[w].at = "reads" /\ wk[w].ri > Len(wk[w].reads) /\ ~wk[w].raises

\* line 69 (a set is iterated in no particular order) and line 71
NextGcoord(w) ==
    /\ pc = "map"
    /\ ReadsDone(w)
    /\ \E g \in wk[w].todo :
          LET key == keys[wk[w].task]
              rds == get_reads(bamfiles, key[1], key[2], g)
          IN  wk' = [wk EXCEPT ![w].at = "reads", ![w].gcoord = g,
                               ![w].todo = @ \ {g}, ![w].reads = rds.items,
                               ![w].raises = rds.raises, ![w].ri = 1]
    /\ UNCHANGED <<opts, cdsbed, bedpos, bamfiles, inbams, gcoorddict, pc, err, keys,
                   taskq, results, offset_tallies, master_rdlen_idx, master_offset,
                   offsets, tallyfile_out, offsetfile_out, summed, call>>

\* lines 72-76 for the next read of the current coordinate
TallyRead(w) ==
    /\ pc = "map"
    /\ wk[w].at = "reads"
    /\ wk[w].ri <= Len(wk[w].reads)
    /\ ~TallyRaises(opts, wk[w].tallies, wk[w].reads[wk[w].ri], wk[w].gcoord)
    /\ wk' = [wk EXCEPT ![w].tallies =
                           TallyOne(opts, @, wk[w].reads[wk[w].ri], wk[w].gcoord),
                        ![w].ri = @ + 1]
    /\ UNCHANGED <<opts, cdsbed, bedpos, bamfiles, inbams, gcoorddict, pc, err, keys,
                   taskq, results, offset_tallies, master_rdlen_idx, master_offset,
                   offsets, tallyfile_out, offsetfile_out, summed, call>>

\* an exception in a worker (a fetch that raises, an index out of the matrix)
\* is re-raised by workers.map in the main process, which ends with a traceback
WorkerRaise(w) ==
    /\ pc = "map"
    /\ wk[w].at = "reads"
    /\ \/ /\ wk[w].ri <= Len(wk[w].reads)
          /\ TallyRaises(opts, wk[w].tallies, wk[w].reads[wk[w].ri], wk[w].gcoord)
       \/ /\ wk[w].ri > Len(wk[w].reads)
          /\ wk[w].raises
    /\ pc' = "crashed"
    /\ err' = "worker"
    /\ UNCHANGED <<opts, cdsbed, bedpos, bamfiles, inbams, gcoorddict, keys, taskq, wk,
                   results, offset_tallies, master_rdlen_idx, master_offset, offsets,
                   tallyfile_out, offsetfile_out, summed, call>>

\* line 81
Return(w) ==
    /\ pc = "map"
    /\ wk[w].at # "idle"
    /\ ReadsDone(w)
    /\ wk[w].todo = {}
    /\ results' = [results EXCEPT ![wk[w].task] = [done |-> TRUE, m |-> wk[w].tallies]]
    /\ wk' = [wk EXCEPT ![w] = IdleWorker]
    /\ UNCHANGED <<opts, cdsbed, bedpos, bamfiles, inbams, gcoorddict, pc, err, keys,
                   taskq, offset_tallies, master_rdlen_idx, master_offset, offsets,
                   tallyfile_out, offsetfile_out, summed, call>>

(***************************************************************************)
(* The reduction (line 84) and what follows it.                            *)
(***************************************************************************)
AllDone_dispatched(res) == taskq > Len(keys)

\* workers.map returns when every task has returned
AllDone(res) == \A t \in DOMAIN res : res[t].done

RECURSIVE SumResults(_, _)
\* sum(list): 0 + res[1] + ... + res[n], in list order, on uint32 arrays
SumResults(res, n) ==
    IF n = 1 THEN res[1].m ELSE MatAdd(SumResults(res, n - 1), res[n].m)

\* line 84, the sum
Reduce ==
    /\ pc = "map"
    /\ AllDone(results)
    /\ summed' = IF keys = <<>> THEN <<>> ELSE SumResults(results, Len(keys))
    /\ pc' = "astype"
    /\ UNCHANGED <<opts, cdsbed, bedpos, bamfiles, inbams, gcoorddict, err, keys, taskq,
                   wk, results, offset_tallies, master_rdlen_idx, master_offset, offsets,
                   tallyfile_out, offsetfile_out, call>>

\* line 84, .astype(np.float64), and line 85
AsType ==
    /\ pc = "astype"
    /\ keys # <<>>
    /\ offset_tallies' = MatAsFloat(summed)
    /\ pc' = "tallyfile"
    /\ UNCHANGED <<opts, cdsbed, bedpos, bamfiles, inbams, gcoorddict, err, keys, taskq,
                   wk, results, summed, master_rdlen_idx, master_offset, offsets,
                   tallyfile_out, offsetfile_out, call>>

\* with no task, sum([]) is the int 0, which has no astype: AttributeError
AsTypeError ==
    /\ pc = "astype"
    /\ keys = <<>>
    /\ pc' = "crashed"
    /\ err' = "reduce"
    /\ UNCHANGED <<opts, cdsbed, bedpos, bamfiles, inbams, gcoorddict, keys, taskq, wk,
                   results, summed, offset_tallies, master_rdlen_idx, master_offset,
                   offsets, tallyfile_out, offsetfile_out, call>>

\* lines 87-90: one line per read length, the row of the aggregate matrix
WriteTally ==
    /\ pc = "tallyfile"
    /\ opts.tallyfile
    /\ tallyfile_out' =
          [exists |-> TRUE,
           lines |-> [i \in 1..NRows(opts) |->
                        <<opts.minrdlen + i - 1, offset_tallies[i - 1]>>]]
    /\ pc' = "resolve"
    /\ UNCHANGED <<opts, cdsbed, bedpos, bamfiles, inbams, gcoorddict, err, keys, taskq,
                   wk, results, offset_tallies, master_rdlen_idx, master_offset, offsets,
                   offsetfile_out, summed, call>>

SkipTally ==
    /\ pc = "tallyfile"
    /\ ~opts.tallyfile
    /\ pc' = "resolve"
    /\ UNCHANGED <<opts, cdsbed, bedpos, bamfiles, inbams, gcoorddict, err, keys, taskq,
                   wk, results, offset_tallies, master_rdlen_idx, master_offset, offsets,
                   tallyfile_out, offsetfile_out, summed, call>>

\* lines 95-97
Resolve ==
    /\ pc = "resolve"
    /\ ~ResolveRaises(opts)
    /\ master_rdlen_idx' = MasterRow(offset_tallies, opts)
    /\ master_offset' = MasterOffset(offset_tallies, opts)
    /\ offsets' = Offsets(offset_tallies, opts)
    /\ pc' = "offsetfile"
    /\ UNCHANGED <<opts, cdsbed, bedpos, bamfiles, inbams, gcoorddict, err, keys, taskq,
                   wk, results, offset_tallies, tallyfile_out, offsetfile_out, summed, call>>

\* np.argmax of an empty array: ValueError at line 95 or 96
ResolveError ==
    /\ pc = "resolve"
    /\ ResolveRaises(opts)
    /\ pc' = "crashed"
    /\ err' = "resolve"
    /\ UNCHANGED <<opts, cdsbed, bedpos, bamfiles, inbams, gcoorddict, keys, taskq, wk,
                   results, offset_tallies, master_rdlen_idx, master_offset, offsets,
                   tallyfile_out, offsetfile_out, summed, call>>

\* lines 99-102
WriteOffsets ==
    /\ pc = "offsetfile"
    /\ offsetfile_out' =
          [exists |-> TRUE,
           lines |-> [i \in 1..NRows(opts) |-> <<opts.minrdlen + i - 1, offsets[i - 1]>>]]
    /\ pc' = "close"
    /\ UNCHANGED <<opts, cdsbed, bedpos, bamfiles, inbams, gcoorddict, err, keys, taskq,
                   wk, results, offset_tallies, master_rdlen_idx, master_offset, offsets,
                   tallyfile_out, summed, call>>

\* one iteration of the loop of lines 103-104
CloseBam ==
    /\ pc = "close"
    /\ LET b == Min({i \in 1..Len(inbams) : inbams[i] = "open"})
       IN  /\ inbams' = [inbams EXCEPT ![b] = "closed"]
           /\ pc' = IF b = Len(inbams) THEN "done" ELSE "close"
    /\ UNCHANGED <<opts, cdsbed, bedpos, bamfiles, gcoorddict, err, keys, taskq, wk,
                   results, offset_tallies, master_rdlen_idx, master_offset, offsets,
                   tallyfile_out, offsetfile_out, summed, call>>

\* one call of offset_to_gcoord
CallOffsetToGcoord ==
    /\ pc = "call"
    /\ ~call.done
    /\ call' = [call EXCEPT !.ret = offset_to_gcoord(call.read, call.gcoord),
                            !.done = TRUE]
    /\ UNCHANGED <<opts, cdsbed, bedpos, bamfiles, inbams, gcoorddict, pc, err, keys,
                   taskq, wk, results, offset_tallies, master_rdlen_idx, master_offset,
                   offsets, tallyfile_out, offsetfile_out, summed>>

(***************************************************************************)
(* Inputs.                                                                 *)
(***************************************************************************)
Line(c, s, ts, te) ==
    [ncols |-> 8, numeric |-> TRUE, chrom |-> c, strand |-> s,
     thickstart |-> ts, thickend |-> te]
ShortLine == [Line("chrI", "+", 0, 0) EXCEPT !.ncols = 3]       \* fewer than 8 columns
TextLine == [Line("chrI", "+", 0, 0) EXCEPT !.numeric = FALSE]  \* thickStart is no integer

Read(c, rev, p, n, e) ==
    [chrom |-> c, is_reverse |-> rev, positions |-> p, nmis |-> n, extra |-> e]

RECURSIVE Sorted(_)
\* the elements of a set of integers in increasing order
Sorted(S) == IF S = {} THEN <<>> ELSE <<Min(S)>> \o Sorted(S \ {Min(S)})

\* the command lines the runs are started with: read lengths MaxRdLen-1..MaxRdLen
\* with any number of processes, and --minrdlen above --maxrdlen + 0, which argparse
\* accepts and which gives a matrix of no rows
RunOpts ==
    [minrdlen : {MaxRdLen - 1}, maxrdlen : {MaxRdLen}, max5mis : {Max5MisDefault},
     numproc : 1..MaxProc, tallyfile : BOOLEAN]
    \cup
    [minrdlen : {MaxRdLen + 1}, maxrdlen : {MaxRdLen}, max5mis : {Max5MisDefault},
     numproc : {1}, tallyfile : BOOLEAN]

\* annotation inputs of whole runs
RunLines ==
    {Line("chrI", "+", 0, 3), Line("chrI", "+", 1, 3), Line("chrI", "-", 1, 4),
     Line("chrII", "+", 1, 3), ShortLine}

\* alignment files of whole runs: one that names both chromosomes, one that
\* names only chrI
BamA ==
    [refs |-> {"chrI", "chrII"},
     reads |-> <<Read("chrI", FALSE, <<0, 1, 2>>, 0, 0),
                 Read("chrI", FALSE, <<0, 1>>, 0, 0),
                 Read("chrI", TRUE, <<2, 3>>, 0, 0),
                 Read("chrI", FALSE, <<0, 1, 2>>, 2, 0),
                 Read("chrII", FALSE, <<0, 1, 2>>, 1, 0)>>]
BamB ==
    [refs |-> {"chrI"},
     reads |-> <<Read("chrI", FALSE, <<0, 1, 2>>, 0, 0)>>]
RunBams == {<<BamA>>, <<BamA, BamB>>}

Unset ==
    /\ keys = <<>>
    /\ taskq = 0
    /\ wk = <<>>
    /\ results = <<>>
    /\ summed = <<>>
    /\ offset_tallies = <<>>
    /\ master_rdlen_idx = None
    /\ master_offset = None
    /\ offsets = <<>>
    /\ tallyfile_out = NoFile
    /\ offsetfile_out = NoFile
    /\ call = NoCall

(***************************************************************************)
(* Whole runs of the program.                                              *)
(***************************************************************************)
Init ==
    /\ opts \in RunOpts
    /\ cdsbed \in SeqsUpTo(RunLines, MaxBedLines)
    /\ bamfiles \in RunBams
    /\ bedpos = 0
    /\ inbams = <<>>
    /\ gcoorddict = [k \in Keys |-> {}]
    /\ pc = "open"
    /\ err = "none"
    /\ Unset

Next ==
    \/ OpenBams
    \/ ParseLine
    \/ ParseError
    \/ StartPool
    \/ \E w \in DOMAIN wk : Dispatch(w)
    \/ \E w \in DOMAIN wk : NextGcoord(w)
    \/ \E w \in DOMAIN wk : TallyRead(w)
    \/ \E w \in DOMAIN wk : WorkerRaise(w)
    \/ \E w \in DOMAIN wk : Return(w)
    \/ Reduce
    \/ AsType
    \/ AsTypeError
    \/ WriteTally
    \/ SkipTally
    \/ Resolve
    \/ ResolveError
    \/ WriteOffsets
    \/ CloseBam

Spec == Init /\ [][Next]_vars

(***************************************************************************)
(* offset_to_gcoord alone, on every read and coordinate within the bounds  *)
(* (position lists with repeats included).                                 *)
(***************************************************************************)
InitMapper ==
    /\ opts = [minrdlen |-> MaxRdLen - 1, maxrdlen |-> MaxRdLen,
               max5mis |-> Max5MisDefault, numproc |-> 1, tallyfile |-> FALSE]
    /\ cdsbed = <<>>
    /\ bamfiles = <<>>
    /\ bedpos = 0
    /\ inbams = <<>>
    /\ gcoorddict = [k \in Keys |-> {}]
    /\ pc = "call"
    /\ err = "none"
    /\ keys = <<>>
    /\ taskq = 0
    /\ wk = <<>>
    /\ results = <<>>
    /\ summed = <<>>
    /\ offset_tallies = <<>>
    /\ master_rdlen_idx = None
    /\ master_offset = None
    /\ offsets = <<>>
    /\ tallyfile_out = NoFile
    /\ offsetfile_out = NoFile
    /\ call \in [read : [is_reverse : BOOLEAN, positions : SeqsUpTo(Coords, MaxPositions)],
                 gcoord : Coords, ret : {None}, done : {FALSE}]

NextMapper == CallOffsetToGcoord

SpecMapper == InitMapper /\ [][NextMapper]_vars

(***************************************************************************)
(* The annotation index alone, on every annotation input within the bounds.*)
(***************************************************************************)
IndexLines ==
    {Line(c, s, ts, te) : c \in Chroms, s \in Strands, ts \in {0, 1}, te \in {1, 2}}
        \cup {ShortLine, TextLine}

InitIndex ==
    /\ opts = [minrdlen |-> MaxRdLen - 1, maxrdlen |-> MaxRdLen,
               max5mis |-> Max5MisDefault, numproc |-> 1, tallyfile |-> FALSE]
    /\ cdsbed \in SeqsUpTo(IndexLines, MaxIndexLines)
    /\ bamfiles = <<BamA>>
    /\ bedpos = 0
    /\ inbams = <<"open">>
    /\ gcoorddict = [k \in Keys |-> {}]
    /\ pc = "parse"
    /\ err = "none"
    /\ Unset

NextIndex == ParseLine \/ ParseError

SpecIndex == InitIndex /\ [][NextIndex]_vars

(***************************************************************************)
(* map_start_sites alone: one (chromosome, strand) unit run by one worker, *)
(* on every read within the bounds.                                        *)
(***************************************************************************)
TallyReads ==
    {Read("chrI", rev, Sorted(P), n, e) :
        rev \in BOOLEAN, P \in (SUBSET Coords) \ {{}}, n \in 0..MaxNmis, e \in 0..1}

TallyOpts ==
    [minrdlen : {MaxRdLen - 1, MaxRdLen}, maxrdlen : {MaxRdLen},
     max5mis : {Max5MisDefault}, numproc : {1}, tallyfile : {FALSE}]

TallyBams ==
    {<<[refs |-> {"chrI"}, reads |-> <<r>>]>> : r \in {x \in TallyReads : x.nmis <= Len(x.positions)}}
    \cup {<<[refs |-> {"chrI"}, reads |-> <<r, r>>]>> : r \in {x \in TallyReads : x.nmis <= Len(x.positions)}}
    \cup {<<[refs |-> {}, reads |-> <<>>]>>}

InitTally ==
    /\ opts \in TallyOpts
    /\ cdsbed = <<>>
    /\ bamfiles \in TallyBams
    /\ bedpos = 0
    /\ inbams = <<"open">>
    /\ \E s \in Strands, G \in {X \in SUBSET Coords : Cardinality(X) \in {1, 2}} :
          /\ gcoorddict = [k \in Keys |-> IF k = <<"chrI", s>> THEN G ELSE {}]
          /\ keys = << <<"chrI", s>> >>
    /\ pc = "map"
    /\ err = "none"
    /\ taskq = 1
    /\ wk = <<IdleWorker>>
    /\ results = <<[done |-> FALSE, m |-> Zeros(opts)]>>
    /\ summed = <<>>
    /\ offset_tallies = <<>>
    /\ master_rdlen_idx = None
    /\ master_offset = None
    /\ offsets = <<>>
    /\ tallyfile_out = NoFile
    /\ offsetfile_out = NoFile
    /\ call = NoCall

NextTally ==
    \/ \E w \in DOMAIN wk : Dispatch(w)
    \/ \E w \in DOMAIN wk : NextGcoord(w)
    \/ \E w \in DOMAIN wk : TallyRead(w)
    \/ \E w \in DOMAIN wk : WorkerRaise(w)
    \/ \E w \in DOMAIN wk : Return(w)

SpecTally == InitTally /\ [][NextTally]_vars

(***************************************************************************)
(* The reduction alone, on unit matrices whose cells are large counts.     *)
(***************************************************************************)
SumOpts ==
    [minrdlen |-> MaxRdLen - 1, maxrdlen |-> MaxRdLen, max5mis |-> Max5MisDefault,
     numproc |-> 1, tallyfile |-> FALSE]

\* counts a cell can hold: 1, 2^31 and 2^32 - 1
BigCounts == {<<0, 1>>, <<Half \div 2, 0>>, <<Half - 1, Half - 1>>}

UnitMatrices ==
    {Zeros(SumOpts)} \cup
    {[Zeros(SumOpts) EXCEPT ![i][j] = v] :
        i \in 0..(NRows(SumOpts) - 1), j \in 0..(NCols(SumOpts) - 1), v \in BigCounts}

InitSum ==
    /\ opts = SumOpts
    /\ cdsbed = <<>>
    /\ bamfiles = <<BamA>>
    /\ bedpos = 0
    /\ inbams = <<"open">>
    /\ gcoorddict = [k \in Keys |-> IF k[1] = "chrI" THEN {0} ELSE {}]
    /\ keys = << <<"chrI", "+">>, <<"chrI", "-">> >>
    /\ pc = "map"
    /\ err = "none"
    /\ taskq = 3
    /\ wk = <<IdleWorker>>
    /\ results \in [1..2 -> [done : {TRUE}, m : UnitMatrices]]
    /\ summed = <<>>
    /\ offset_tallies = <<>>
    /\ master_rdlen_idx = None
    /\ master_offset = None
    /\ offsets = <<>>
    /\ tallyfile_out = NoFile
    /\ offsetfile_out = NoFile
    /\ call = NoCall

NextSum == Reduce

SpecSum == InitSum /\ [][NextSum]_vars

(***************************************************************************)
(* The resolver alone, on every aggregate matrix within the bounds.        *)
(***************************************************************************)
InitResolve ==
    /\ opts = [minrdlen |-> MaxRdLen - 1, maxrdlen |-> MaxRdLen,
               max5mis |-> Max5MisDefault, numproc |-> 1, tallyfile |-> FALSE]
    /\ cdsbed = <<>>
    /\ bamfiles = <<BamA>>
    /\ bedpos = 0
    /\ inbams = <<"open">>
    /\ gcoorddict = [k \in Keys |-> {}]
    /\ keys = <<>>
    /\ pc = "resolve"
    /\ err = "none"
    /\ taskq = 0
    /\ wk = <<>>
    /\ results = <<>>
    /\ summed = <<>>
    /\ offset_tallies \in [0..(NRows(opts) - 1) -> [0..(NCols(opts) - 1) -> 0..MaxVal]]
    /\ master_rdlen_idx = None
    /\ master_offset = None
    /\ offsets = <<>>
    /\ tallyfile_out = NoFile
    /\ offsetfile_out = NoFile
    /\ call = NoCall

NextResolve == Resolve

SpecResolve == InitResolve /\ [][NextResolve]_vars

(***************************************************************************)
(* Properties.                                                             *)
(***************************************************************************)
\* the (coordinate, read) pair worker w handles next
Pending(w) == wk[w].at = "reads" /\ wk[w].ri <= Len(wk[w].reads)
PendingRead(w) == wk[w].reads[wk[w].ri]

\* the condition under which a pair is to be tallied, from the read's own
\* fields: trimmed length and mismatches within the configured limits, the
\* coordinate found among the covered positions, offset not below the mismatches
ToBeTallied(read, gcoord) ==
    LET rdlen == read_length_nmis(read)[1]
        nmis == read_length_nmis(read)[2]
        off == offset_to_gcoord(read, gcoord)
    IN  /\ opts.minrdlen <= rdlen
        /\ rdlen <= opts.maxrdlen
        /\ nmis <= opts.max5mis
        /\ off # None
        /\ off >= nmis

\* matrix new is matrix old with cell (i, j) one higher and nothing else changed
GrownByOneAt(old, new, i, j) ==
    /\ i \in DOMAIN old
    /\ j \in DOMAIN old[i]
    /\ \A a \in DOMAIN old : \A b \in DOMAIN old[a] :
          AsFloat(new[a][b]) = AsFloat(old[a][b]) + (IF a = i /\ b = j THEN 1 ELSE 0)

\* C1: for every (start-codon coordinate, read) pair of a work unit the matrix
\* changes if and only if minrdlen <= trimmed length <= maxrdlen, mismatches <=
\* max5mis, the offset is found and offset >= mismatches; then exactly the cell
\* [trimmed length - minrdlen][offset - mismatches] grows by exactly 1; otherwise
\* the matrix is unchanged; and the step raises no error.
C1_TallyIff ==
    [][\A w \in DOMAIN wk :
          Pending(w) =>
             LET read == PendingRead(w)
                 g == wk[w].gcoord
                 old == wk[w].tallies
                 new == wk'[w].tallies
             IN  /\ pc' = "map"
                 /\ wk'[w].ri = wk[w].ri + 1
                 /\ (new # old) <=> ToBeTallied(read, g)
                 /\ ToBeTallied(read, g) =>
                       GrownByOneAt(old, new,
                                    read_length_nmis(read)[1] - opts.minrdlen,
                                    offset_to_gcoord(read, g) - read_length_nmis(read)[2])
       ]_vars

\* a unit in which a read with one trimmed mismatch has been tallied into its
\* cell and a second copy of it is about to be
C1_Witness ==
    \E w \in DOMAIN wk :
        /\ Pending(w)
        /\ wk[w].ri = 2
        /\ PendingRead(w).nmis = 1
        /\ ToBeTallied(wk[w].reads[1], wk[w].gcoord)
        /\ AsFloat(wk[w].tallies[read_length_nmis(wk[w].reads[1])[1] - opts.minrdlen]
                                [offset_to_gcoord(wk[w].reads[1], wk[w].gcoord) - 1]) = 1

\* C2: offset_to_gcoord returns None when no covered position equals the
\* coordinate; otherwise, with idx the first index whose position equals the
\* coordinate, it returns idx for a forward read and count - 1 - idx for a reverse
\* read, a value within 0..count-1.
C2_OffsetFromFivePrime ==
    call.done =>
        LET p == call.read.positions
            n == Len(p)
            r == call.ret
        IN  IF \A i \in 1..n : p[i] # call.gcoord
            THEN r = None
            ELSE /\ r \in 0..(n - 1)
                 /\ LET idx == IF call.read.is_reverse THEN n - 1 - r ELSE r
                    IN  /\ p[idx + 1] = call.gcoord
                        /\ \A j \in 0..(idx - 1) : p[j + 1] # call.gcoord

\* a reverse read whose list holds the coordinate, at a place where counting
\* from the other end gives another number
C2_Witness ==
    /\ call.done
    /\ call.read.is_reverse
    /\ call.ret # None
    /\ Len(call.read.positions) - 1 - call.ret # call.ret

\* C3: after any number of annotation records, the set of each (chromosome,
\* strand) is exactly {thickStart of its forward records} or {thickEnd - 1 of its
\* reverse records}, over the records consumed with thickStart # thickEnd: a set,
\* so each coordinate once, nothing from an empty record, and a function of which
\* records were consumed, not of their order.
C3_IndexExact ==
    \A k \in Keys :
        gcoorddict[k] =
            {(IF k[2] = "+" THEN cdsbed[i].thickstart ELSE cdsbed[i].thickend - 1) :
                i \in {x \in 1..bedpos : /\ cdsbed[x].chrom = k[1]
                                         /\ cdsbed[x].strand = k[2]
                                         /\ cdsbed[x].thickstart # cdsbed[x].thickend}}

\* three records consumed: two different ones of one reverse (chromosome, strand)
\* with the same start codon, and one with an empty coding region
C3_Witness ==
    /\ bedpos = 3
    /\ \E i, j, e \in 1..3 :
          /\ cdsbed[i] # cdsbed[j]
          /\ cdsbed[i].strand = "-"
          /\ cdsbed[i].chrom = cdsbed[j].chrom
          /\ cdsbed[i].strand = cdsbed[j].strand
          /\ cdsbed[i].thickend = cdsbed[j].thickend
          /\ cdsbed[i].thickstart # cdsbed[i].thickend
          /\ cdsbed[j].thickstart # cdsbed[j].thickend
          /\ cdsbed[e].thickstart = cdsbed[e].thickend
          /\ \A k \in Keys : Cardinality(gcoorddict[k]) =
                                IF k = <<cdsbed[i].chrom, "-">> THEN 1 ELSE 0

\* the (coordinate, read) pairs of a whole run: for every key of the index and
\* every coordinate under it, each read get_reads yields, with its place in the
\* iteration
AllPairs ==
    UNION {UNION {LET rds == get_reads(bamfiles, k[1], k[2], g).items
                  IN  {[key |-> k, gcoord |-> g, n |-> n, read |-> rds[n]] :
                          n \in 1..Len(rds)} :
                  g \in gcoorddict[k]} :
           k \in KeySet(gcoorddict)}

\* per cell, the number of pairs of the whole run that are to be tallied into it
TrueMatrix ==
    LET pairs == {t \in AllPairs : ToBeTallied(t.read, t.gcoord)}
    IN  [i \in 0..(NRows(opts) - 1) |-> [j \in 0..(NCols(opts) - 1) |->
            Cardinality({t \in pairs :
                /\ read_length_nmis(t.read)[1] - opts.minrdlen = i
                /\ offset_to_gcoord(t.read, t.gcoord) - read_length_nmis(t.read)[2] = j})]]

\* C4: the aggregate matrix and the offset table are functions of the annotation
\* and the reads alone: whatever the number of workers, the order of the tasks in
\* the list and the interleaving of the workers, the aggregate is the count, per
\* cell, of the pairs to be tallied, and the offset table on disk is the one the
\* resolver gives for that matrix.
C4_SameForEverySchedule ==
    pc \in {"tallyfile", "resolve", "offsetfile", "close", "done"} =>
        LET true == TrueMatrix
        IN  /\ offset_tallies = true
            /\ pc \in {"offsetfile", "close", "done"} => offsets = Offsets(true, opts)
            /\ offsetfile_out.exists =>
                  LET table == Offsets(true, opts)
                  IN  offsetfile_out.lines =
                         [i \in 1..NRows(opts) |-> <<opts.minrdlen + i - 1, table[i - 1]>>]

\* a finished run of two workers over two units, each of which tallied something
C4_Witness ==
    /\ pc = "done"
    /\ opts.numproc = 2
    /\ Len(keys) = 2
    /\ results[1].m # Zeros(opts)
    /\ results[2].m # Zeros(opts)
    /\ results[1].m # results[2].m
    /\ offsetfile_out.exists

SameRow(a, b) == \A j \in 0..(NCols(opts) - 1) : a[j] = b[j]
ZeroRow(a) == \A j \in 0..(NCols(opts) - 1) : a[j] = 0

\* C5 as stated: every row identical to the master row gets exactly master_offset
C5_IdenticalRowGetsMasterOffset ==
    pc = "offsetfile" =>
        \A i \in 0..(NRows(opts) - 1) :
            SameRow(offset_tallies[i], offset_tallies[master_rdlen_idx])
                => offsets[i] = master_offset

\* C5, amended: every row identical to the master row, the master row holding at
\* least one non-zero count, gets exactly master_offset, the first maximum of its
\* correlation being at lag maxrdlen - 1.
C5_IdenticalNonZeroRowGetsMasterOffset ==
    pc = "offsetfile" =>
        \A i \in 0..(NRows(opts) - 1) :
            /\ SameRow(offset_tallies[i], offset_tallies[master_rdlen_idx])
            /\ ~ZeroRow(offset_tallies[master_rdlen_idx])
            => /\ offsets[i] = master_offset
               /\ BestLag(offset_tallies[i], offset_tallies[master_rdlen_idx], opts)
                     = opts.maxrdlen - 1

\* a resolved matrix whose other row equals the master row, with two equal peaks
C5_Witness ==
    /\ pc = "offsetfile"
    /\ \E i \in 0..(NRows(opts) - 1) :
          /\ i # master_rdlen_idx
          /\ SameRow(offset_tallies[i], offset_tallies[master_rdlen_idx])
          /\ \E a, b \in 0..(NCols(opts) - 1) :
                /\ a # b
                /\ offset_tallies[i][a] = offset_tallies[i][b]
                /\ offset_tallies[i][a] > 0
                /\ \A c \in 0..(NCols(opts) - 1) : offset_tallies[i][c] <= offset_tallies[i][a]

\* C6: when the process has exited, normally or on an uncaught exception, every
\* handle opened at line 30 has been closed
C6_HandlesClosedAtExit ==
    pc \in {"done", "crashed"} => \A b \in DOMAIN inbams : inbams[b] = "closed"

\* C7: when the run has ended in a fatal error (annotation, worker, reduction or
\* offset computation), neither output file exists
C7_NoOutputOnFatalError ==
    pc = "crashed" /\ err \in {"parse", "worker", "reduce", "resolve"}
        => ~tallyfile_out.exists /\ ~offsetfile_out.exists

\* row is master moved s columns to the right (to the left for s < 0), no
\* non-zero count of master moved out of the vector
ShiftOf(row, master, s) ==
    /\ \A j \in 0..(NCols(opts) - 1) :
          row[j] = IF 0 <= j - s /\ j - s <= NCols(opts) - 1 THEN master[j - s] ELSE 0
    /\ \A j \in 0..(NCols(opts) - 1) :
          (j + s < 0 \/ j + s > NCols(opts) - 1) => master[j] = 0

\* C8: a row that is the master row shifted by s columns, nothing non-zero pushed
\* out and the master row not all zero, gets master_offset + s.
C8_ShiftedRowGetsShiftedOffset ==
    pc = "offsetfile" =>
        \A i \in 0..(NRows(opts) - 1) :
            \A s \in (1 - NCols(opts))..(NCols(opts) - 1) :
                /\ ShiftOf(offset_tallies[i], offset_tallies[master_rdlen_idx], s)
                /\ ~ZeroRow(offset_tallies[master_rdlen_idx])
                => offsets[i] = master_offset + s

\* a resolved matrix whose other row is the master row, of two non-zero counts,
\* moved one column to the left
C8_Witness ==
    /\ pc = "offsetfile"
    /\ \E i \in 0..(NRows(opts) - 1) :
          /\ i # master_rdlen_idx
          /\ ShiftOf(offset_tallies[i], offset_tallies[master_rdlen_idx], -1)
          /\ Cardinality({j \in 0..(NCols(opts) - 1) :
                             offset_tallies[master_rdlen_idx][j] > 0}) >= 2
          /\ offsets[i] = master_offset - 1

\* C9: no addition of the element-wise sum wraps around: each cell of the sum of
\* the unit matrices is the sum of the units' counts for that cell
C9_SumIsTrueCount ==
    pc = "astype" =>
        \A i \in DOMAIN summed : \A j \in DOMAIN summed[i] :
            LET a == results[1].m[i][j]
                b == results[2].m[i][j]
            IN  /\ summed[i][j][2] = (a[2] + b[2]) % Half
                /\ summed[i][j][1] = a[1] + b[1] + ((a[2] + b[2]) \div Half)

\* C10: every read that passes the filters of lines 73 and 75 addresses a cell
\* inside the matrix: 0 <= trimmed length - minrdlen <= maxrdlen - minrdlen and
\* 0 <= offset - mismatches <= maxrdlen - 1.
C10_IndexInsideMatrix ==
    \A w \in DOMAIN wk :
        wk[w].at = "reads" =>
            \A n \in 1..Len(wk[w].reads) :
                LET read == wk[w].reads[n]
                    row == read_length_nmis(read)[1] - opts.minrdlen
                    col == offset_to_gcoord(read, wk[w].gcoord) - read_length_nmis(read)[2]
                IN  LengthOk(opts, read) /\ OffsetOk(read, wk[w].gcoord)
                       => /\ 0 <= row /\ row <= opts.maxrdlen - opts.minrdlen
                          /\ 0 <= col /\ col <= opts.maxrdlen - 1

\* a read with a trimmed mismatch has been tallied into the last column
C10_Witness ==
    \E w \in DOMAIN wk :
        /\ wk[w].at = "reads"
        /\ wk[w].ri > 1
        /\ wk[w].reads[1].nmis = 1
        /\ LengthOk(opts, wk[w].reads[1])
        /\ OffsetOk(wk[w].reads[1], wk[w].gcoord)
        /\ offset_to_gcoord(wk[w].reads[1], wk[w].gcoord) - 1 = opts.maxrdlen - 1
        /\ AsFloat(wk[w].tallies[read_length_nmis(wk[w].reads[1])[1] - opts.minrdlen]
                                [opts.maxrdlen - 1]) = 1
====
